---- MODULE Spec2Model ----
(***************************************************************************)
(* Model of grab_receipts_exporter/cli.py: the receipt parsing pipeline    *)
(* (get_email_text, detect_service_type, the extractors,                   *)
(* parse_email_to_row) and the incremental mailbox export                  *)
(* (fetch_new_uids, process_mailbox_to_csv, load_last_uid/save_last_uid).  *)
(*                                                                         *)
(* Text. A Python str is modelled as a sequence of tokens; the string is   *)
(* the tokens written one after the other with a single blank between two  *)
(* neighbouring words.  A token is a literal fragment of a receipt.  The   *)
(* newline is the token NL, a markup tag is a token of Tags; both are      *)
(* written without blanks around them.  Thai fragments and                 *)
(* the baht sign are written in ASCII transliteration (the module is       *)
(* ASCII): BAHT is U+0E3F, ThaiTip is the Thai phrase of cli.py line 259.  *)
(* A regular expression of the source becomes an operator that scans the   *)
(* token sequence the way re.search scans the string: leftmost match      *)
(* first, \s matching the blank between tokens and NL, "." matching       *)
(* everything but NL.                                                      *)
(***************************************************************************)
EXTENDS Naturals, Integers, Sequences, FiniteSets, TLC

VARIABLES
    \* ---- the parsing pipeline (pure functions, one input at a time)
    msg,            \* the email.message.Message handed to the function
    body,           \* the text handed to detect_service_type
    text_out,       \* what get_email_text returned (or the exception)
    service_type,   \* what detect_service_type returned
    total,          \* parse_email_to_row's local: extract_total_amount's result
    metadata,       \* parse_email_to_row's local: extract_metadata's result
    row,            \* what parse_email_to_row returned (or the exception)
    extracted,      \* what an extractor called on body returned (or the exception)
    \* ---- the export (process_mailbox_to_csv and its collaborators)
    mailbox,        \* the IMAP mailbox: mailbox[u] is the message with UID u
    state_file,     \* the integer stored at state_path (0: no file yet)
    csv,            \* the rows of the CSV file, in file order
    csv_open,       \* TRUE while the file opened by ensure_csv_with_header is open
    pc,             \* where process_mailbox_to_csv stands
    last_uid,       \* local: the cursor loaded by load_last_uid
    data,           \* fetch_new_uids' local: the UIDs of the SEARCH response, in its order
    uids,           \* local: the list returned by fetch_new_uids
    max_uid,        \* local
    processed_count,\* local
    idx,            \* local: position of the for loop in uids
    exc,            \* the exception in flight ("none" when there is none)
    session,        \* the IMAP session: "none", "open", "closed"
    runs            \* number of runs started (bounds the model)

pure_vars == <<msg, body, text_out, service_type, total, metadata, row, extracted>>
run_vars  == <<mailbox, state_file, csv, csv_open, pc, last_uid, data, uids, max_uid,
               processed_count, idx, exc, session, runs>>
vars == <<msg, body, text_out, service_type, total, metadata, row, extracted,
          mailbox, state_file, csv, csv_open, pc, last_uid, data, uids, max_uid,
          processed_count, idx, exc, session, runs>>

----------------------------------------------------------------------------
(* Generic helpers on sequences and numbers.                               *)

Range(s) == {s[i] : i \in 1..Len(s)}

SeqsUpTo(S, n) == UNION {[1..k -> S] : k \in 0..n}

RECURSIVE Flatten(_)
Flatten(ss) == IF ss = <<>> THEN <<>> ELSE Head(ss) \o Flatten(Tail(ss))

SetMax(S) == CHOOSE m \in S : \A x \in S : x <= m

SetMin(S) == CHOOSE m \in S : \A x \in S : m <= x

\* str(n) of a non-negative integer, one token per decimal digit.
DigitChar == <<"0", "1", "2", "3", "4", "5", "6", "7", "8", "9">>

RECURSIVE str(_)
str(n) == IF n < 10 THEN <<DigitChar[n + 1]>>
          ELSE str(n \div 10) \o <<DigitChar[(n % 10) + 1]>>

\* int(s) of a string of decimal digits, the inverse of str.
DigitValue(c) == CHOOSE d \in 0..9 : DigitChar[d + 1] = c

RECURSIVE int(_)
int(s) == IF s = <<>> THEN 0
          ELSE 10 * int(SubSeq(s, 1, Len(s) - 1)) + DigitValue(s[Len(s)])

----------------------------------------------------------------------------
(* Tokens.                                                                 *)

NL == "\n"
Whitespace == {NL}
\* markup: <style ...>, </style>, any other tag <...>
StyleOpen == "<style>"
StyleClose == "</style>"
Tags == {StyleOpen, StyleClose, "<p>"}

\* an undecodable byte of a payload, and what errors="replace" makes of it
BadByte == "0xFF"
Replacement == "U+FFFD"
Latin1Byte == "U+00FF"

----------------------------------------------------------------------------
(* get_email_text (cli.py 34-58).                                          *)
(* A message is [multipart, date, parts]: parts are the leaf parts in the  *)
(* order msg.walk() visits them; a single-part message has one part, the   *)
(* message itself.  A part is [ctype, charset, payload], charset "" when   *)
(* none is declared, payload the transfer-decoded bytes as tokens          *)
(* (get_payload(decode=True) is None only for a multipart container,       *)
(* whose content type is never text/plain or text/html).                   *)

TextTypes == {"text/plain", "text/html"}

KnownCodecs == {"utf-8", "iso-8859-1"}

NoExc == "none"

\* bytes.decode(charset, errors="replace"): LookupError for an unknown codec
\* (CPython returns "" for empty bytes before it looks the codec up).
BytesDecode(payload, charset) ==
    IF charset \notin KnownCodecs /\ payload # <<>>
    THEN [exc |-> "LookupError", val |-> <<>>]
    ELSE [exc |-> NoExc,
          val |-> [i \in 1..Len(payload) |->
                     IF payload[i] = BadByte
                     THEN (IF charset = "utf-8" THEN Replacement ELSE Latin1Byte)
                     ELSE payload[i]]]

\* part.get_content_charset() or "utf-8"
CharsetOf(part) == IF part.charset = "" THEN "utf-8" ELSE part.charset

\* "\n".join(parts)
RECURSIVE JoinNL(_)
JoinNL(parts) ==
    IF parts = <<>> THEN <<>>
    ELSE IF Len(parts) = 1 THEN parts[1]
    ELSE parts[1] \o <<NL>> \o JoinNL(Tail(parts))

\* lines 40-50: the loop over msg.walk(); a part that raises is skipped
RECURSIVE MultipartTexts(_)
MultipartTexts(ps) ==
    IF ps = <<>> THEN <<>>
    ELSE LET part == Head(ps)
             d == BytesDecode(part.payload, CharsetOf(part))
         IN  IF part.ctype \in TextTypes /\ d.exc = NoExc
             THEN <<d.val>> \o MultipartTexts(Tail(ps))
             ELSE MultipartTexts(Tail(ps))

\* lines 52-57: the single part is decoded outside any try
SinglePartText(part) ==
    IF part.ctype \in TextTypes /\ part.payload # <<>>
    THEN BytesDecode(part.payload, CharsetOf(part))
    ELSE [exc |-> NoExc, val |-> <<>>]

get_email_text(m) ==
    IF m.multipart
    THEN [exc |-> NoExc, val |-> JoinNL(MultipartTexts(m.parts))]
    ELSE SinglePartText(m.parts[1])

----------------------------------------------------------------------------
(* detect_service_type (cli.py 252-274).                                   *)

ThaiTip == "thip phuea pen kamlangchai"
TipsEReceipt == "Tips E-Receipt"
GrabTipsEReceipt == "Grab Tips E-Receipt"
SourceGrabFood == "SOURCE_GRABFOOD"
MyteksiUrl == "https://myteksi.s3.ap-southeast-1.amazonaws.com/image.png"
MyteksiHead == "myteksi.s3"
AmazonTail == ".amazonaws.com"
RatingStar == "ratingStar%3D5"
OrderId9 == "orderID%3D00123456789"
OrderId5 == "orderID%3D0012345"
PickUpLocation == "pick up location"
DropOffLocation == "Drop Off Location"

\* b[i], or "" beyond the ends
At(b, i) == IF i \in 1..Len(b) THEN b[i] ELSE ""

\* line 259: Tips E-Receipt|<Thai tip phrase>|Grab Tips E-Receipt, case-sensitive;
\* the literal may also stand in two neighbouring words
HasTipMarker(b) ==
    \E i \in 1..Len(b) :
        \/ b[i] \in {TipsEReceipt, GrabTipsEReceipt, ThaiTip}
        \/ b[i] = "Tips" /\ At(b, i + 1) = "E-Receipt"

\* line 263: "SOURCE_GRABFOOD" in body
HasFoodPrimary(b) == \E i \in 1..Len(b) : b[i] = SourceGrabFood

\* line 265: myteksi\.s3.*?\.amazonaws\.com ("." does not match a newline)
HasTransportPrimary(b) ==
    \E i \in 1..Len(b) :
        \/ b[i] = MyteksiUrl
        \/ /\ b[i] = MyteksiHead
           /\ \E j \in (i + 1)..Len(b) :
                 /\ b[j] = AmazonTail
                 /\ \A k \in (i + 1)..(j - 1) : b[k] # NL

\* line 269: ratingStar%3D|orderID%3D00\d{9}
HasFoodSecondary(b) == \E i \in 1..Len(b) : b[i] \in {RatingStar, OrderId9}

\* line 271: (?i)pick.{0,5}up\s+location|drop.{0,5}off\s+location
\* (\s+ also spans newlines between the words)
RECURSIVE SkipWhitespace(_, _)
SkipWhitespace(b, i) ==
    IF i <= Len(b) /\ b[i] \in Whitespace THEN SkipWhitespace(b, i + 1) ELSE i

HasTransportSecondary(b) ==
    \E i \in 1..Len(b) :
        \/ b[i] \in {PickUpLocation, DropOffLocation}
        \/ b[i] = "pick-up" /\ At(b, SkipWhitespace(b, i + 1)) = "location"

\* detect_service_type with its tiers in another order: food before tip,
\* and the two secondary tiers swapped
detect_service_type_food_first(b) ==
    IF HasFoodPrimary(b) THEN "GrabFood"
    ELSE IF HasTipMarker(b) THEN "GrabTip"
    ELSE IF HasTransportPrimary(b) THEN "GrabTransport"
    ELSE IF HasFoodSecondary(b) THEN "GrabFood"
    ELSE IF HasTransportSecondary(b) THEN "GrabTransport"
    ELSE "Unknown"

detect_service_type_secondary_swapped(b) ==
    IF HasTipMarker(b) THEN "GrabTip"
    ELSE IF HasFoodPrimary(b) THEN "GrabFood"
    ELSE IF HasTransportPrimary(b) THEN "GrabTransport"
    ELSE IF HasTransportSecondary(b) THEN "GrabTransport"
    ELSE IF HasFoodSecondary(b) THEN "GrabFood"
    ELSE "Unknown"

detect_service_type(b) ==
    IF HasTipMarker(b) THEN "GrabTip"
    ELSE IF HasFoodPrimary(b) THEN "GrabFood"
    ELSE IF HasTransportPrimary(b) THEN "GrabTransport"
    ELSE IF HasFoodSecondary(b) THEN "GrabFood"
    ELSE IF HasTransportSecondary(b) THEN "GrabTransport"
    ELSE "Unknown"

----------------------------------------------------------------------------
(* Numbers in text.  A token that holds digits is spelled out, character   *)
(* by character, by Chars; the character classes of the regular            *)
(* expressions and float() work on the spelling.  A float is held exactly  *)
(* as a number of hundredths (the tokens have at most two decimals).       *)

Baht == "(baht)"
THB == "THB"

Digits == {"0", "1", "2", "3", "4", "5", "6", "7", "8", "9"}
DigitsComma == Digits \cup {","}
DigitsDot == Digits \cup {"."}

Spelling ==
    [t \in {"191", "1,234", "245.00", ",", "17.18", "1.2.3", "38", "5276", "2x"} |->
        CASE t = "191"    -> <<"1", "9", "1">>
          [] t = "1,234"  -> <<"1", ",", "2", "3", "4">>
          [] t = "245.00" -> <<"2", "4", "5", ".", "0", "0">>
          [] t = ","      -> <<",">>
          [] t = "17.18"  -> <<"1", "7", ".", "1", "8">>
          [] t = "1.2.3"  -> <<"1", ".", "2", ".", "3">>
          [] t = "38"     -> <<"3", "8">>
          [] t = "5276"   -> <<"5", "2", "7", "6">>
          [] t = "2x"     -> <<"2", "x">>]

\* the characters of a token; <<>> for a token without digits
Chars(t) == IF t \in DOMAIN Spelling THEN Spelling[t] ELSE <<>>

\* the longest prefix / suffix of cs made of characters of S
RECURSIVE PrefixIn(_, _)
PrefixIn(cs, S) ==
    IF cs # <<>> /\ Head(cs) \in S THEN <<Head(cs)>> \o PrefixIn(Tail(cs), S)
    ELSE <<>>

RECURSIVE SuffixIn(_, _)
SuffixIn(cs, S) ==
    IF cs # <<>> /\ cs[Len(cs)] \in S
    THEN SuffixIn(SubSeq(cs, 1, Len(cs) - 1), S) \o <<cs[Len(cs)]>>
    ELSE <<>>

\* val.replace(",", "")
RECURSIVE RemoveCommas(_)
RemoveCommas(cs) ==
    IF cs = <<>> THEN <<>>
    ELSE IF Head(cs) = "," THEN RemoveCommas(Tail(cs))
    ELSE <<Head(cs)>> \o RemoveCommas(Tail(cs))

Count(cs, c) == Cardinality({i \in 1..Len(cs) : cs[i] = c})

\* float(s): ValueError unless s is digits with at most one point and at
\* least one digit; the value in hundredths otherwise
FloatOk(cs) ==
    /\ \A i \in 1..Len(cs) : cs[i] \in DigitsDot
    /\ Count(cs, ".") <= 1
    /\ \E i \in 1..Len(cs) : cs[i] \in Digits

FloatValue(cs) ==
    LET ip == PrefixIn(cs, Digits)
        fp == SuffixIn(cs, Digits)
        frac == IF Count(cs, ".") = 0 THEN <<>> ELSE fp
    IN  100 * int(ip)
        + (IF Len(frac) = 0 THEN 0
           ELSE IF Len(frac) = 1 THEN 10 * int(frac)
           ELSE int(SubSeq(frac, 1, 2)))

\* Python values: None, a float (hundredths), an int, a str (tokens)
None == [k |-> "None", n |-> 0, s |-> <<>>]
PyFloat(h) == [k |-> "float", n |-> h, s |-> <<>>]
PyInt(i) == [k |-> "int", n |-> i, s |-> <<>>]
PyStr(toks) == [k |-> "str", n |-> 0, s |-> toks]

\* f"{x:.2f}"
Format2f(h) ==
    str(h \div 100) \o <<".">> \o <<DigitChar[((h % 100) \div 10) + 1]>>
                    \o <<DigitChar[(h % 10) + 1]>>

\* repr(x) of a float, as json.dumps and f"{x}" write it: 80.0, 17.18, 245.5
FloatRepr(h) ==
    str(h \div 100) \o <<".">> \o <<DigitChar[((h % 100) \div 10) + 1]>>
        \o (IF h % 10 = 0 THEN <<>> ELSE <<DigitChar[(h % 10) + 1]>>)

\* the least position of S, 0 when there is none (the leftmost match)
First(S) == IF S = {} THEN 0 ELSE SetMin(S)

\* [\d,]+ at the start of token t
CapDigitsComma(t) == PrefixIn(Chars(t), DigitsComma)

\* [\d,]+(?:\.\d{2})? and [\d,]+\.\d{2} at the start of token t
DecimalTail(t) ==
    LET cs == Chars(t)
        p == Len(PrefixIn(cs, DigitsComma))
    IN  IF /\ p > 0
           /\ Len(cs) >= p + 3
           /\ cs[p + 1] = "."
           /\ cs[p + 2] \in Digits
           /\ cs[p + 3] \in Digits
        THEN SubSeq(cs, p + 1, p + 3)
        ELSE <<>>

CapAmountOptDec(t) == CapDigitsComma(t) \o DecimalTail(t)

CapAmountDec(t) ==
    IF DecimalTail(t) = <<>> THEN <<>> ELSE CapDigitsComma(t) \o DecimalTail(t)

\* [\d,]+\.\d{2} ending token t (the text before \s*THB)
CapAmountDecAtEnd(t) ==
    IF CapAmountDec(t) # <<>> /\ Len(CapAmountDec(t)) = Len(Chars(t))
    THEN CapAmountDec(t) ELSE <<>>

----------------------------------------------------------------------------
(* extract_total_amount (cli.py 61-85), on the raw text.                   *)

\* the token after position i, whitespace skipped (\s*)
NextWord(b, i) == At(b, SkipWhitespace(b, i + 1))

\* one pattern of the list: its leftmost match's group(1), commas removed
TotalPattern1(b) ==
    LET i == First({j \in 1..Len(b) : b[j] = Baht /\ CapAmountOptDec(NextWord(b, j)) # <<>>})
    IN  IF i = 0 THEN [m |-> FALSE, val |-> <<>>]
        ELSE [m |-> TRUE, val |-> RemoveCommas(CapAmountOptDec(NextWord(b, i)))]

TotalPattern2(b) ==
    LET i == First({j \in 1..Len(b) : b[j] = THB /\ CapAmountDec(NextWord(b, j)) # <<>>})
    IN  IF i = 0 THEN [m |-> FALSE, val |-> <<>>]
        ELSE [m |-> TRUE, val |-> RemoveCommas(CapAmountDec(NextWord(b, i)))]

TotalPattern3(b) ==
    LET i == First({j \in 1..Len(b) : CapAmountDecAtEnd(b[j]) # <<>> /\ NextWord(b, j) = THB})
    IN  IF i = 0 THEN [m |-> FALSE, val |-> <<>>]
        ELSE [m |-> TRUE, val |-> RemoveCommas(CapAmountDecAtEnd(b[i]))]

\* lines 77-85: the first pattern that matches and converts wins
RECURSIVE FirstConverting(_)
FirstConverting(ms) ==
    IF ms = <<>> THEN None
    ELSE IF Head(ms).m /\ FloatOk(Head(ms).val) THEN PyFloat(FloatValue(Head(ms).val))
    ELSE FirstConverting(Tail(ms))

extract_total_amount(b) ==
    FirstConverting(<<TotalPattern1(b), TotalPattern2(b), TotalPattern3(b)>>)

----------------------------------------------------------------------------
(* extract_order_id (cli.py 88-98): A-[A-Z0-9]{10,}                        *)

OrderIdTokens == {"A-8Q34JAIGWGQMAV"}

extract_order_id(b) ==
    LET i == First({j \in 1..Len(b) : b[j] \in OrderIdTokens})
    IN  IF i = 0 THEN None ELSE PyStr(<<b[i]>>)

----------------------------------------------------------------------------
(* strip_html (cli.py 101-106) and parse_amount (cli.py 109-114).          *)

\* <style[^>]*>.*?</style> removed, leftmost and shortest first
RECURSIVE RemoveStyleBlocks(_)
RemoveStyleBlocks(b) ==
    IF b = <<>> THEN <<>>
    ELSE LET j == First({k \in 1..Len(b) : k > 1 /\ b[k] = StyleClose})
         IN  IF Head(b) = StyleOpen /\ j # 0
             THEN RemoveStyleBlocks(SubSeq(b, j + 1, Len(b)))
             ELSE <<Head(b)>> \o RemoveStyleBlocks(Tail(b))

\* html.unescape
Unescape(t) == IF t = "&amp;" THEN "&" ELSE t

\* every tag becomes a blank, every run of whitespace one blank: what is
\* left is the words, one blank apart
strip_html(b) ==
    LET words == SelectSeq(RemoveStyleBlocks(b), LAMBDA t : t \notin Tags \cup Whitespace)
    IN  [i \in 1..Len(words) |-> Unescape(words[i])]

parse_amount(cs) ==
    IF FloatOk(RemoveCommas(cs)) THEN PyFloat(FloatValue(RemoveCommas(cs))) ELSE None

\* metadata[k] = v
Put(md, k, v) == (k :> v) @@ md

\* if m: metadata[k] = <the text matched>
PutStr(md, k, match) == IF match.m THEN Put(md, k, PyStr(match.val)) ELSE md

\* if m: metadata[k] = parse_amount(m.group(1))
PutAmount(md, k, cap) == IF cap # <<>> THEN Put(md, k, parse_amount(cap)) ELSE md

EmptyDict == [k \in {} |-> None]

----------------------------------------------------------------------------
(* extract_food_metadata (cli.py 117-167).                                 *)

\* the Thai labels of the receipts, transliterated
OriginLabel == "sathanthi roemton kan doenthang:"
DestLabel == "sathanthi plaithang:"
ProfileLabel == "profai"
SubtotalLabel == "kha ahan"
DeliveryLabel == "kha chatsong"
SpecialOrderLabel == "khamsangsue phiset"
ThaiPaymentLabel == "rupbaep kan chamra ngoen"
ThaiCash == "ngoensot"
ThaiPaidBy == "chamra doi"
ThaiFare == "kha doisan"
ThaiDriver == "chue phu khap"
ThaiTraveller == "chue phu doenthang"

PaymentMethods == {"MasterCard", "Visa", "Cash", "GrabPay"}

\* a captured run of words as a str: the words with the blanks between them
RECURSIVE Words(_)
Words(toks) ==
    IF Len(toks) <= 1 THEN toks
    ELSE <<Head(toks), " ">> \o Words(Tail(toks))

\* label:\s*(.+?)\s*closing, the text between the leftmost label that has a
\* closing label after it and the nearest such closing label
Between(w, label, closing) ==
    LET i == First({j \in 1..Len(w) : w[j] = label /\ \E k \in (j + 1)..Len(w) : w[k] = closing})
        e == First({k \in 1..Len(w) : k > i /\ w[k] = closing})
    IN  IF i = 0 THEN [m |-> FALSE, val |-> <<>>]
        ELSE [m |-> TRUE, val |-> Words(SubSeq(w, i + 1, e - 1))]

\* (\d+)x: a token of digits closed by "x"
IsQty(t) ==
    LET cs == Chars(t)
    IN  /\ Len(cs) >= 2
        /\ cs[Len(cs)] = "x"
        /\ Len(PrefixIn(cs, Digits)) = Len(cs) - 1

\* the price token that closes the item opened at i: the nearest baht sign,
\* at least one word after the quantity, that digits follow (0 for none)
ItemBaht(w, i) ==
    First({j \in 1..Len(w) : j >= i + 2 /\ w[j] = Baht /\ CapDigitsComma(At(w, j + 1)) # <<>>})

\* f"{qty}x {name} @{price}"
ItemText(w, i, j) ==
    LET price == parse_amount(CapDigitsComma(w[j + 1]))
    IN  str(int(PrefixIn(Chars(w[i]), Digits))) \o <<"x ">> \o Words(SubSeq(w, i + 1, j - 1))
            \o <<" @">> \o (IF price = None THEN <<"None">> ELSE FloatRepr(price.n))

\* re.finditer of line 137, from position s on: the items, in order
RECURSIVE FoodItems(_, _)
FoodItems(w, s) ==
    LET i == First({j \in 1..Len(w) : j >= s /\ IsQty(w[j]) /\ ItemBaht(w, j) # 0})
    IN  IF i = 0 THEN <<>>
        ELSE <<ItemText(w, i, ItemBaht(w, i))>> \o FoodItems(w, ItemBaht(w, i) + 2)

\* "; ".join(items)
RECURSIVE JoinSemi(_)
JoinSemi(items) ==
    IF items = <<>> THEN <<>>
    ELSE IF Len(items) = 1 THEN items[1]
    ELSE items[1] \o <<"; ">> \o JoinSemi(Tail(items))

\* label\s+baht\s*([\d,]+): group(1) of the leftmost match, <<>> for none
AfterLabelBaht(w, labels) ==
    LET i == First({j \in 1..Len(w) : /\ w[j] \in labels
                                      /\ At(w, j + 1) = Baht
                                      /\ CapDigitsComma(At(w, j + 2)) # <<>>})
    IN  IF i = 0 THEN <<>> ELSE CapDigitsComma(w[i + 2])

AllDigits(t) == Chars(t) # <<>> /\ Len(PrefixIn(Chars(t), Digits)) = Len(Chars(t))

\* line 156: label\s*\d*\s*baht\s*([\d,]+)
FoodPlatformFee(w) ==
    LET labels == {SpecialOrderLabel, "Platform Fee", "Small Order Fee"}
        Direct(j) == At(w, j + 1) = Baht /\ CapDigitsComma(At(w, j + 2)) # <<>>
        Counted(j) == /\ AllDigits(At(w, j + 1))
                      /\ At(w, j + 2) = Baht
                      /\ CapDigitsComma(At(w, j + 3)) # <<>>
        i == First({j \in 1..Len(w) : w[j] \in labels /\ (Direct(j) \/ Counted(j))})
    IN  IF i = 0 THEN <<>>
        ELSE IF Direct(i) THEN CapDigitsComma(w[i + 2])
        ELSE CapDigitsComma(w[i + 3])

\* (\d{4})? after the method: the first four characters of the next word
Last4(t) ==
    IF Len(PrefixIn(Chars(t), Digits)) >= 4 THEN SubSeq(Chars(t), 1, 4) ELSE <<>>

\* f"{method} {last4}".strip()
MethodLast4(method, last4) ==
    IF last4 = <<>> THEN <<method>> ELSE <<method, " ">> \o last4

\* label[:\s]*(method)\s*(\d{4})? : f"{method} {last4}".strip()
PaymentAfterLabel(w, labels, methods) ==
    LET i == First({j \in 1..Len(w) : w[j] \in labels /\ At(w, j + 1) \in methods})
    IN  IF i = 0 THEN [m |-> FALSE, val |-> <<>>]
        ELSE [m |-> TRUE, val |-> MethodLast4(w[i + 1], Last4(At(w, i + 2)))]

FoodKeys == <<"restaurant", "delivery_address", "items", "subtotal",
              "delivery_fee", "platform_fee", "payment_method">>

extract_food_metadata(b) ==
    LET m1(w) == PutStr(EmptyDict, "restaurant", Between(w, OriginLabel, DestLabel))
        m2(w) == PutStr(m1(w), "delivery_address", Between(w, DestLabel, ProfileLabel))
        Items(items) == [m |-> items # <<>>, val |-> JoinSemi(items)]
        m3(w) == PutStr(m2(w), "items", Items(FoodItems(w, 1)))
        m4(w) == PutAmount(m3(w), "subtotal", AfterLabelBaht(w, {SubtotalLabel}))
        m5(w) == PutAmount(m4(w), "delivery_fee", AfterLabelBaht(w, {DeliveryLabel}))
        m6(w) == PutAmount(m5(w), "platform_fee", FoodPlatformFee(w))
        m7(w) == PutStr(m6(w), "payment_method",
                        PaymentAfterLabel(w, {ThaiPaymentLabel, "Paid by", "Payment"},
                                          PaymentMethods \cup {ThaiCash}))
    IN  [exc |-> NoExc, val |-> m7(strip_html(b))]

----------------------------------------------------------------------------
(* extract_transport_metadata (cli.py 170-225).                            *)

ServiceClasses == {"GrabCar Premium", "Standard (JustGrab)", "JustGrab", "GrabBike"}
Km == "km"
Bullet == "(bullet)"
MinWords == {"min", "mins"}
Ellipsis == "(vertical ellipsis)"
ClockTimes == {"8:13AM", "8:52AM"}

\* line 184: ([\d.]+)\s*km\s*[bullet]\s*(\d+)\s*min, the leftmost match
DistanceAt(w) ==
    First({j \in 1..Len(w) : /\ SuffixIn(Chars(w[j]), DigitsDot) # <<>>
                             /\ At(w, j + 1) = Km
                             /\ At(w, j + 2) = Bullet
                             /\ AllDigits(At(w, j + 3))
                             /\ At(w, j + 4) \in MinWords})

\* line 191: re.findall of ([^ellipsis]+?)\s+(clock time) from position s on
RECURSIVE LocationsTimes(_, _)
LocationsTimes(w, s) ==
    LET t == First({j \in 1..Len(w) : j > s /\ w[j] \in ClockTimes})
        e == IF t = 0 THEN {} ELSE {k \in s..(t - 1) : w[k] = Ellipsis}
    IN  IF s > Len(w) \/ t = 0 THEN <<>>
        ELSE IF e # {} THEN LocationsTimes(w, SetMax(e) + 1)
        ELSE <<[loc |-> Words(SubSeq(w, s, t - 1)), time |-> w[t]]>> \o LocationsTimes(w, t + 1)

\* label\s+(?:baht\s*)?([\d,]+): group(1) of the leftmost match, <<>> for none
AfterLabelOptBaht(w, labels) ==
    LET Amount(j) == IF At(w, j + 1) = Baht THEN At(w, j + 2) ELSE At(w, j + 1)
        i == First({j \in 1..Len(w) : w[j] \in labels /\ CapDigitsComma(Amount(j)) # <<>>})
    IN  IF i = 0 THEN <<>> ELSE CapDigitsComma(Amount(i))

\* line 215: label[:\s]*(?:.*?)(\d{4})\s*(?:baht|THB): four digits closing a
\* word that a currency mark follows, anywhere after the leftmost label
CardBeforeCurrency(w) ==
    LET i == First({j \in 1..Len(w) : w[j] \in {"Paid by", "Payment"}})
        c == First({k \in 1..Len(w) : /\ i # 0 /\ k > i
                                      /\ Len(SuffixIn(Chars(w[k]), Digits)) >= 4
                                      /\ At(w, k + 1) \in {Baht, THB}})
    IN  IF c = 0 THEN <<>>
        ELSE LET ds == SuffixIn(Chars(w[c]), Digits)
             IN  SubSeq(ds, Len(ds) - 3, Len(ds))

\* line 219: (MasterCard|Visa|Cash|GrabPay)\s*(\d{4})?
AnyMethod(w) ==
    LET i == First({j \in 1..Len(w) : w[j] \in PaymentMethods})
    IN  IF i = 0 THEN [m |-> FALSE, val |-> <<>>]
        ELSE [m |-> TRUE, val |-> MethodLast4(w[i], Last4(At(w, i + 1)))]

TransportKeys == <<"service_class", "distance_km", "duration_min", "pickup",
                   "pickup_time", "dropoff", "dropoff_time", "fare", "toll",
                   "platform_fee", "payment_method">>

\* lines 185-187 with line 187 left out: the distance without the duration
PutDistance_without_duration(md, w, di) ==
    IF di # 0
    THEN Put(md, "distance_km", PyFloat(FloatValue(SuffixIn(Chars(w[di]), DigitsDot))))
    ELSE md

\* lines 185-187: both fields are set under the one match; float() is not
\* guarded
PutDistance(md, w, di) ==
    IF di # 0
    THEN Put(Put(md, "distance_km", PyFloat(FloatValue(SuffixIn(Chars(w[di]), DigitsDot)))),
             "duration_min", PyInt(int(Chars(w[di + 3]))))
    ELSE md

extract_transport_metadata(b) ==
    LET ServiceClass(w, sc) == [m |-> sc # 0, val |-> <<At(w, sc)>>]
        m1(w) == PutStr(EmptyDict, "service_class",
                        ServiceClass(w, First({j \in 1..Len(w) : w[j] \in ServiceClasses})))
        Distance(w, di) == SuffixIn(Chars(At(w, di)), DigitsDot)
        m2(w) == PutDistance(m1(w), w, DistanceAt(w))
        PutLocations(md, lt) ==
            IF Len(lt) >= 2
            THEN Put(Put(Put(Put(md, "pickup", PyStr(lt[1].loc)),
                             "pickup_time", PyStr(<<lt[1].time>>)),
                         "dropoff", PyStr(lt[2].loc)),
                     "dropoff_time", PyStr(<<lt[2].time>>))
            ELSE md
        m3(w) == PutLocations(m2(w), LocationsTimes(w, 1))
        m4(w) == PutAmount(m3(w), "fare", AfterLabelOptBaht(w, {"Fare", ThaiFare}))
        m5(w) == PutAmount(m4(w), "toll", AfterLabelOptBaht(w, {"Toll"}))
        m6(w) == PutAmount(m5(w), "platform_fee", AfterLabelOptBaht(w, {"Platform Fee"}))
        PutPayment(md, card, any) ==
            IF card # <<>> THEN Put(md, "payment_method", PyStr(<<"Card ending ">> \o card))
            ELSE IF any.m THEN Put(md, "payment_method", PyStr(any.val))
            ELSE md
        m7(w) == PutPayment(m6(w), CardBeforeCurrency(w), AnyMethod(w))
        Raises(w, di) == di # 0 /\ ~FloatOk(Distance(w, di))
        Result(w) == IF Raises(w, DistanceAt(w))
                     THEN [exc |-> "ValueError", val |-> EmptyDict]
                     ELSE [exc |-> NoExc, val |-> m7(w)]
    IN  Result(strip_html(b))

----------------------------------------------------------------------------
(* extract_tip_metadata (cli.py 228-249).                                  *)

GB == "(GB)"

\* line 238: label[:\s]*(?:\(GB\))?\s*([^\n]+?)(?:\s*traveller label|$)
DriverName(w) ==
    LET i == First({j \in 1..Len(w) : w[j] \in {ThaiDriver, "Driver"} /\ j < Len(w)})
        s == IF At(w, i + 1) = GB /\ i + 1 < Len(w) THEN i + 2 ELSE i + 1
        e == First({k \in 1..Len(w) : k >= s /\ w[k] = ThaiTraveller})
    IN  IF i = 0 THEN [m |-> FALSE, val |-> <<>>]
        ELSE [m |-> TRUE,
              val |-> Words(IF e = 0 THEN SubSeq(w, s, Len(w)) ELSE SubSeq(w, s, e - 1))]

TipKeys == <<"driver_name", "payment_method">>

extract_tip_metadata(b) ==
    LET m1(w) == PutStr(EmptyDict, "driver_name", DriverName(w))
        m2(w) == PutStr(m1(w), "payment_method",
                        PaymentAfterLabel(w, {ThaiPaidBy, "Paid by", "Payment"}, PaymentMethods))
    IN  [exc |-> NoExc, val |-> m2(strip_html(b))]

----------------------------------------------------------------------------
(* extract_metadata (cli.py 277-287).                                      *)

extract_metadata(b, st) ==
    IF st = "GrabFood" THEN extract_food_metadata(b)
    ELSE IF st = "GrabTransport" THEN extract_transport_metadata(b)
    ELSE IF st = "GrabTip" THEN extract_tip_metadata(b)
    ELSE [exc |-> NoExc, val |-> EmptyDict]

\* the keys of a mapping in insertion order
KeyOrder(st) ==
    IF st = "GrabFood" THEN FoodKeys
    ELSE IF st = "GrabTransport" THEN TransportKeys
    ELSE IF st = "GrabTip" THEN TipKeys
    ELSE <<>>

----------------------------------------------------------------------------
(* parse_email_to_row (cli.py 290-318).                                    *)
(* A column of the row is a str written as the sequence of its fragments;  *)
(* <<>> is the empty string.                                               *)

ValidDate == "Thu, 24 Apr 2025 05:26:59 +0000"
GarbageDate == "not a date"

\* lines 296-300: the ISO form, or the raw header when it does not parse
DateIso(date_raw) ==
    IF date_raw = ValidDate THEN <<"2025-04-24T05:26:59+00:00">>
    ELSE IF date_raw = "" THEN <<>>
    ELSE <<date_raw>>

\* json.dumps of one value
JsonValue(v) ==
    IF v.k = "str" THEN <<"\"">> \o v.s \o <<"\"">>
    ELSE IF v.k = "float" THEN FloatRepr(v.n)
    ELSE IF v.k = "int" THEN str(v.n)
    ELSE <<"null">>

RECURSIVE JsonMembers(_, _)
JsonMembers(m, keys) ==
    IF keys = <<>> THEN <<>>
    ELSE LET rest == JsonMembers(m, Tail(keys))
         IN  IF Head(keys) \in DOMAIN m
             THEN <<"\"", Head(keys), "\": ">> \o JsonValue(m[Head(keys)])
                      \o (IF rest = <<>> THEN <<>> ELSE <<", ">> \o rest)
             ELSE rest

\* json.dumps(metadata, ensure_ascii=False); keys is the insertion order
JsonDumps(m, keys) == <<"{">> \o JsonMembers(m, keys) \o <<"}">>

\* the row literal altered: the currency set unconditionally, the
\* metadata serialized unconditionally
MakeRow_currency_always(uid, date_iso, st, order_id, tot, md) ==
    [uid |-> str(uid),
     date |-> date_iso,
     type |-> <<st>>,
     order_id |-> IF order_id = None THEN <<>> ELSE order_id.s,
     currency |-> <<"THB">>,
     total_amount |-> IF tot # None THEN Format2f(tot.n) ELSE <<>>,
     metadata |-> IF DOMAIN md # {} THEN JsonDumps(md, KeyOrder(st)) ELSE <<>>]

MakeRow_dumps_always(uid, date_iso, st, order_id, tot, md) ==
    [uid |-> str(uid),
     date |-> date_iso,
     type |-> <<st>>,
     order_id |-> IF order_id = None THEN <<>> ELSE order_id.s,
     currency |-> IF tot # None THEN <<"THB">> ELSE <<>>,
     total_amount |-> IF tot # None THEN Format2f(tot.n) ELSE <<>>,
     metadata |-> JsonDumps(md, KeyOrder(st))]

\* lines 309-317
MakeRow(uid, date_iso, st, order_id, tot, md) ==
    [uid |-> str(uid),
     date |-> date_iso,
     type |-> <<st>>,
     order_id |-> IF order_id = None THEN <<>> ELSE order_id.s,
     currency |-> IF tot # None THEN <<"THB">> ELSE <<>>,
     total_amount |-> IF tot # None THEN Format2f(tot.n) ELSE <<>>,
     metadata |-> IF DOMAIN md # {} THEN JsonDumps(md, KeyOrder(st)) ELSE <<>>]

NoRow == [uid |-> <<>>, date |-> <<>>, type |-> <<>>, order_id |-> <<>>,
          currency |-> <<>>, total_amount |-> <<>>, metadata |-> <<>>]

\* the function with its locals: exc is the exception that leaves it
ParseLocals(uid, m) ==
    LET Locals(txt, body_text, tot, order_id, st, md) ==
            IF txt.exc # NoExc
            THEN [exc |-> txt.exc, body_text |-> <<>>, total |-> None, service_type |-> "",
                  metadata |-> EmptyDict, row |-> NoRow]
            ELSE IF md.exc # NoExc
            THEN [exc |-> md.exc, body_text |-> body_text, total |-> tot,
                  service_type |-> st, metadata |-> EmptyDict, row |-> NoRow]
            ELSE [exc |-> NoExc, body_text |-> body_text, total |-> tot,
                  service_type |-> st, metadata |-> md.val,
                  row |-> MakeRow(uid, DateIso(m.date), st, order_id, tot, md.val)]
        Typed(txt, body_text, st) ==
            Locals(txt, body_text, extract_total_amount(body_text),
                   extract_order_id(body_text), st, extract_metadata(body_text, st))
        Texted(txt) == Typed(txt, txt.val, detect_service_type(txt.val))
    IN  Texted(get_email_text(m))

parse_email_to_row(uid, m) ==
    LET Returned(p) == [exc |-> p.exc, val |-> p.row]
    IN  Returned(ParseLocals(uid, m))

----------------------------------------------------------------------------
(* Bounds of the model.                                                    *)

MaxMarkers == 3     \* words of a text handed to detect_service_type
MaxParts == 2       \* parts of a multi-part message
MaxPayload == 1     \* bytes of a part handed to get_email_text
MaxPhrases == 2     \* phrases of a receipt handed to parse_email_to_row
MaxUid == 3         \* messages the mailbox receives
MaxRuns == 2        \* runs of process_mailbox_to_csv

----------------------------------------------------------------------------
(* The values before anything ran.                                         *)

Pending == "pending"

\* no extractor was called yet
NoExtract == [fn |-> "", exc |-> Pending, val |-> EmptyDict]

NoMsg == [multipart |-> FALSE, date |-> "",
          parts |-> <<[ctype |-> "text/plain", charset |-> "", payload |-> <<>>]>>]

PureIdle ==
    /\ msg = NoMsg
    /\ body = <<>>
    /\ text_out = [exc |-> Pending, val |-> <<>>]
    /\ service_type = ""
    /\ total = None
    /\ metadata = EmptyDict
    /\ row = [exc |-> Pending, val |-> NoRow]
    /\ extracted = NoExtract

RunIdle ==
    /\ mailbox = <<>>
    /\ state_file = 0
    /\ csv = <<>>
    /\ csv_open = FALSE
    /\ pc = "idle"
    /\ last_uid = 0
    /\ data = <<>>
    /\ uids = <<>>
    /\ max_uid = 0
    /\ processed_count = 0
    /\ idx = 0
    /\ exc = NoExc
    /\ session = "none"
    /\ runs = 0

----------------------------------------------------------------------------
(* SpecClassify: detect_service_type applied to every text of at most      *)
(* MaxMarkers words over the markers, their near misses and a newline.     *)

ClassifyTokens ==
    {TipsEReceipt, GrabTipsEReceipt, ThaiTip, "tips e-receipt", "Tips", "E-Receipt",
     SourceGrabFood, MyteksiUrl, MyteksiHead, AmazonTail,
     RatingStar, OrderId9, OrderId5,
     PickUpLocation, DropOffLocation, "pick-up", "location",
     NL, "generic email content"}

InitClassify ==
    /\ body \in SeqsUpTo(ClassifyTokens, MaxMarkers)
    /\ msg = NoMsg
    /\ text_out = [exc |-> Pending, val |-> <<>>]
    /\ service_type = ""
    /\ total = None
    /\ metadata = EmptyDict
    /\ row = [exc |-> Pending, val |-> NoRow]
    /\ extracted = NoExtract
    /\ RunIdle

DetectServiceType ==
    /\ service_type = ""
    /\ service_type' = detect_service_type(body)
    /\ UNCHANGED <<msg, body, text_out, total, metadata, row, extracted>>
    /\ UNCHANGED run_vars

NextClassify == DetectServiceType

SpecClassify == InitClassify /\ [][NextClassify]_vars

----------------------------------------------------------------------------
(* SpecText: get_email_text applied to single-part and multi-part          *)
(* messages of every content type, declared charset and payload.           *)

TextParts ==
    [ctype : {"text/plain", "text/html", "image/png"},
     charset : {"", "iso-8859-1", "x-unknown"},
     payload : SeqsUpTo({"a", BadByte}, MaxPayload)]

TextMessages ==
    [multipart : {FALSE}, date : {ValidDate}, parts : [1..1 -> TextParts]]
    \cup [multipart : {TRUE}, date : {ValidDate}, parts : SeqsUpTo(TextParts, MaxParts)]

InitText ==
    /\ msg \in TextMessages
    /\ body = <<>>
    /\ text_out = [exc |-> Pending, val |-> <<>>]
    /\ service_type = ""
    /\ total = None
    /\ metadata = EmptyDict
    /\ row = [exc |-> Pending, val |-> NoRow]
    /\ extracted = NoExtract
    /\ RunIdle

GetEmailText ==
    /\ text_out.exc = Pending
    /\ text_out' = get_email_text(msg)
    /\ UNCHANGED <<msg, body, service_type, total, metadata, row, extracted>>
    /\ UNCHANGED run_vars

NextText == GetEmailText

SpecText == InitText /\ [][NextText]_vars

----------------------------------------------------------------------------
(* SpecRow: parse_email_to_row applied to single-part receipts made of at  *)
(* most MaxPhrases phrases.                                                *)

Phrases ==
    {<<TipsEReceipt>>, <<SourceGrabFood>>, <<MyteksiUrl>>, <<RatingStar>>,
     <<Baht, "191">>, <<Baht, ",">>, <<Baht, "1,234">>, <<THB, "245.00">>, <<"245.00", THB>>,
     <<"A-8Q34JAIGWGQMAV">>,
     <<SubtotalLabel, Baht, "191">>, <<DeliveryLabel, Baht, ",">>,
     <<"2x", "khao phat", Baht, "38">>,
     <<OriginLabel, "Som Tam Shop", DestLabel, "Home", ProfileLabel>>,
     <<"Paid by", "Visa", "5276">>,
     <<"GrabBike">>, <<"17.18", Km, Bullet, "38", "mins">>, <<"1.2.3", Km, Bullet, "38", "mins">>,
     <<"Fare", ",">>, <<"Platform Fee", "191">>,
     <<"Condo", "8:13AM", "Office", "8:52AM">>,
     <<"Driver", "Somchai", ThaiTraveller>>,
     <<NL>>, <<"<p>">>}

Receipts == {Flatten(ps) : ps \in SeqsUpTo(Phrases, MaxPhrases)}

RowMessages ==
    [multipart : {FALSE}, date : {ValidDate, GarbageDate},
     parts : {<<[ctype |-> "text/html", charset |-> "", payload |-> r]>> : r \in Receipts}]

InitRow ==
    /\ msg \in RowMessages
    /\ body = <<>>
    /\ text_out = [exc |-> Pending, val |-> <<>>]
    /\ service_type = ""
    /\ total = None
    /\ metadata = EmptyDict
    /\ row = [exc |-> Pending, val |-> NoRow]
    /\ extracted = NoExtract
    /\ RunIdle

ParseEmailToRow ==
    /\ row.exc = Pending
    /\ \E uid \in 1..MaxUid :
         LET p == ParseLocals(uid, msg)
         IN  /\ text_out' = get_email_text(msg)
             /\ body' = p.body_text
             /\ service_type' = p.service_type
             /\ total' = p.total
             /\ metadata' = p.metadata
             /\ row' = parse_email_to_row(uid, msg)
    /\ UNCHANGED <<msg, extracted>>
    /\ UNCHANGED run_vars

NextRow == ParseEmailToRow

SpecRow == InitRow /\ [][NextRow]_vars

----------------------------------------------------------------------------
(* SpecExtract: extract_food_metadata and extract_transport_metadata       *)
(* applied to every text of at most MaxPhrases phrases.                    *)

InitExtract ==
    /\ body \in Receipts
    /\ msg = NoMsg
    /\ text_out = [exc |-> Pending, val |-> <<>>]
    /\ service_type = ""
    /\ total = None
    /\ metadata = EmptyDict
    /\ row = [exc |-> Pending, val |-> NoRow]
    /\ extracted = NoExtract
    /\ RunIdle

ExtractFoodMetadata ==
    /\ extracted.exc = Pending
    /\ extracted' = [fn |-> "food", exc |-> extract_food_metadata(body).exc,
                     val |-> extract_food_metadata(body).val]
    /\ UNCHANGED <<msg, body, text_out, service_type, total, metadata, row>>
    /\ UNCHANGED run_vars

ExtractTransportMetadata ==
    /\ extracted.exc = Pending
    /\ extracted' = [fn |-> "transport", exc |-> extract_transport_metadata(body).exc,
                     val |-> extract_transport_metadata(body).val]
    /\ UNCHANGED <<msg, body, text_out, service_type, total, metadata, row>>
    /\ UNCHANGED run_vars

SpecExtract == InitExtract /\ [][ExtractFoodMetadata \/ ExtractTransportMetadata]_vars

----------------------------------------------------------------------------
(* Spec: the export.  process_mailbox_to_csv (cli.py 397-474) runs against *)
(* one mailbox, one CSV file and one state file; between its steps the     *)
(* mailbox receives messages.  The IMAP server assigns UIDs in ascending   *)
(* order: the message with UID u is mailbox[u].                            *)

\* the messages the mailbox receives: a food receipt, and the same receipt
\* as a single text part that declares an unknown charset
FoodReceipt ==
    [multipart |-> FALSE, date |-> ValidDate,
     parts |-> <<[ctype |-> "text/html", charset |-> "",
                  payload |-> <<SourceGrabFood, Baht, "191">>]>>]

UnknownCharsetReceipt ==
    [multipart |-> FALSE, date |-> ValidDate,
     parts |-> <<[ctype |-> "text/plain", charset |-> "x-unknown",
                  payload |-> <<SourceGrabFood, Baht, "191">>]>>]

SampleMessages == {FoodReceipt, UnknownCharsetReceipt}

\* subject: whether the Subject header contains GRAB_SUBJECT_FILTER (line 394)
Deliveries == [subject : BOOLEAN, msg : SampleMessages]

HeaderLine ==
    [uid |-> <<"uid">>, date |-> <<"date">>, type |-> <<"type">>,
     order_id |-> <<"order_id">>, currency |-> <<"currency">>,
     total_amount |-> <<"total_amount">>, metadata |-> <<"metadata">>]

\* sorted(uids)
RECURSIVE Insert(_, _)
Insert(x, s) ==
    IF s = <<>> THEN <<x>>
    ELSE IF x <= Head(s) THEN <<x>> \o s
    ELSE <<Head(s)>> \o Insert(x, Tail(s))

\* fetch_new_uids without its sort: the list as the server sent it
Sorted_as_sent(s) == s

RECURSIVE Sorted(_)
Sorted(s) == IF s = <<>> THEN <<>> ELSE Insert(Head(s), Sorted(Tail(s)))

\* the orders in which a server may list the set S
Orders(S) ==
    {f \in [1..Cardinality(S) -> S] : \A i, j \in 1..Cardinality(S) : f[i] = f[j] => i = j}

\* lines 370-382: the criteria sent, and the UIDs the server answers with.
\* "UID n:*" is sent only for last_uid > 0; "*" is the highest UID of the
\* mailbox and a range holds what lies between its two ends in either
\* order (RFC 3501, 6.4.8), so n:* names the last message even when n is
\* beyond it.  The SUBJECT criterion is always sent.
SearchResult(box, cursor) ==
    {u \in 1..Len(box) :
        /\ box[u].subject
        /\ \/ cursor = 0
           \/ /\ SetMin({cursor + 1, Len(box)}) <= u
              /\ u <= SetMax({cursor + 1, Len(box)})}

\* lines 437-438
NewMax_flipped(uid, m) == IF uid < m THEN uid ELSE m

NewMax(uid, m) == IF uid > m THEN uid ELSE m

Init ==
    /\ PureIdle
    /\ RunIdle

\* a message arrives in the mailbox
Deliver ==
    /\ Len(mailbox) < MaxUid
    /\ \E d \in Deliveries : mailbox' = Append(mailbox, d)
    /\ UNCHANGED <<state_file, csv, csv_open, pc, last_uid, data, uids, max_uid,
                   processed_count, idx, exc, session, runs>>
    /\ UNCHANGED pure_vars

\* lines 405-411: load_last_uid (321-329), connect, login
Start ==
    /\ pc = "idle"
    /\ runs < MaxRuns
    /\ runs' = runs + 1
    /\ last_uid' = state_file
    /\ data' = <<>>
    /\ uids' = <<>>
    /\ max_uid' = 0
    /\ processed_count' = 0
    /\ idx' = 0
    /\ \/ /\ session' = "open"
          /\ exc' = NoExc
          /\ pc' = "search"
       \/ /\ session' = "none"          \* login raises: the try is not entered
          /\ exc' = "imaplib.error"
          /\ pc' = "idle"
    /\ UNCHANGED <<mailbox, state_file, csv, csv_open>>
    /\ UNCHANGED pure_vars

\* lines 366-368, 382-385: select or search answers other than OK
SearchFails ==
    /\ pc = "search"
    /\ exc' = "RuntimeError"
    /\ pc' = "logout"
    /\ UNCHANGED <<mailbox, state_file, csv, csv_open, last_uid, data, uids, max_uid,
                   processed_count, idx, session, runs>>
    /\ UNCHANGED pure_vars

\* lines 414-433: fetch_new_uids (363-391) returns; no UIDs: return;
\* otherwise ensure_csv_with_header (338-354) and the loop begins, unless
\* open (line 345) raises
Search ==
    /\ pc = "search"
    /\ \E d \in Orders(SearchResult(mailbox, last_uid)) :
         /\ data' = d
         /\ uids' = Sorted(d)
         /\ IF d = <<>>
            THEN /\ pc' = "logout"
                 /\ UNCHANGED <<csv, csv_open, max_uid, idx, exc>>
            ELSE \/ /\ csv' = IF csv = <<>> THEN <<HeaderLine>> ELSE csv
                    /\ csv_open' = TRUE
                    /\ max_uid' = last_uid
                    /\ idx' = 1
                    /\ pc' = "loop"
                    /\ UNCHANGED exc
                 \/ /\ exc' = "OSError"
                    /\ pc' = "logout"
                    /\ UNCHANGED <<csv, csv_open, max_uid, idx>>
    /\ UNCHANGED <<mailbox, state_file, last_uid, processed_count, session, runs>>
    /\ UNCHANGED pure_vars

InLoop == pc = "loop" /\ idx <= Len(uids)

\* lines 440-443, 447-455: the fetch answers other than OK, or with no body
\* of more than 100 bytes: continue
FetchSkipped ==
    /\ InLoop
    /\ max_uid' = NewMax(uids[idx], max_uid)
    /\ idx' = idx + 1
    /\ UNCHANGED <<mailbox, state_file, csv, csv_open, pc, last_uid, data, uids,
                   processed_count, exc, session, runs>>
    /\ UNCHANGED pure_vars

\* line 440 raises (the connection is lost); lines 464-465 close the file
FetchRaises ==
    /\ InLoop
    /\ max_uid' = NewMax(uids[idx], max_uid)
    /\ exc' = "imaplib.abort"
    /\ csv_open' = FALSE
    /\ pc' = "logout"
    /\ UNCHANGED <<mailbox, state_file, csv, last_uid, data, uids, processed_count, idx,
                   session, runs>>
    /\ UNCHANGED pure_vars

\* line 458 raises and the file is left as it is: the loop without the
\* finally of lines 464-465
ParseRaises_unclosed ==
    /\ InLoop
    /\ parse_email_to_row(uids[idx], mailbox[uids[idx]].msg).exc # NoExc
    /\ max_uid' = NewMax(uids[idx], max_uid)
    /\ exc' = parse_email_to_row(uids[idx], mailbox[uids[idx]].msg).exc
    /\ pc' = "logout"
    /\ UNCHANGED <<mailbox, state_file, csv, csv_open, last_uid, data, uids, processed_count,
                   idx, session, runs>>
    /\ UNCHANGED pure_vars

\* line 458 raises: nothing in the loop catches it; lines 464-465
ParseRaises ==
    /\ InLoop
    /\ parse_email_to_row(uids[idx], mailbox[uids[idx]].msg).exc # NoExc
    /\ max_uid' = NewMax(uids[idx], max_uid)
    /\ exc' = parse_email_to_row(uids[idx], mailbox[uids[idx]].msg).exc
    /\ csv_open' = FALSE
    /\ pc' = "logout"
    /\ UNCHANGED <<mailbox, state_file, csv, last_uid, data, uids, processed_count, idx,
                   session, runs>>
    /\ UNCHANGED pure_vars

\* line 459 raises (the disk is full); lines 464-465
WriteRaises ==
    /\ InLoop
    /\ parse_email_to_row(uids[idx], mailbox[uids[idx]].msg).exc = NoExc
    /\ max_uid' = NewMax(uids[idx], max_uid)
    /\ exc' = "OSError"
    /\ csv_open' = FALSE
    /\ pc' = "logout"
    /\ UNCHANGED <<mailbox, state_file, csv, last_uid, data, uids, processed_count, idx,
                   session, runs>>
    /\ UNCHANGED pure_vars

\* lines 456-463: the row is parsed and written
RowWritten ==
    /\ InLoop
    /\ parse_email_to_row(uids[idx], mailbox[uids[idx]].msg).exc = NoExc
    /\ max_uid' = NewMax(uids[idx], max_uid)
    /\ csv' = Append(csv, parse_email_to_row(uids[idx], mailbox[uids[idx]].msg).val)
    /\ processed_count' = processed_count + 1
    /\ idx' = idx + 1
    /\ UNCHANGED <<mailbox, state_file, csv_open, pc, last_uid, data, uids, exc, session, runs>>
    /\ UNCHANGED pure_vars

\* lines 464-468: the loop is over; close_csv_writer (357-360), then
\* save_last_uid (332-335) writes the state file or raises
LoopDone ==
    /\ pc = "loop"
    /\ idx > Len(uids)
    /\ csv_open' = FALSE
    /\ \/ /\ state_file' = max_uid
          /\ UNCHANGED exc
       \/ /\ exc' = "OSError"
          /\ UNCHANGED state_file
    /\ pc' = "logout"
    /\ UNCHANGED <<mailbox, csv, last_uid, data, uids, max_uid, processed_count, idx,
                   session, runs>>
    /\ UNCHANGED pure_vars

\* lines 470-474: imap.logout(), whatever it raises is dropped; the function
\* returns, or the exception in flight leaves it
Logout ==
    /\ pc = "logout"
    /\ session' = "closed"
    /\ pc' = "idle"
    /\ UNCHANGED <<mailbox, state_file, csv, csv_open, last_uid, data, uids, max_uid,
                   processed_count, idx, exc, runs>>
    /\ UNCHANGED pure_vars

Next ==
    \/ Deliver
    \/ Start
    \/ SearchFails
    \/ Search
    \/ FetchSkipped
    \/ FetchRaises
    \/ ParseRaises
    \/ WriteRaises
    \/ RowWritten
    \/ LoopDone
    \/ Logout

Spec == Init /\ [][Next]_vars

----------------------------------------------------------------------------
(* Claims about the parsing pipeline.                                      *)

\* C1: detect_service_type returns GrabTip for every text that contains a
\* tip marker, whatever food or transport markers the text also contains.
C1_TipAlwaysWins ==
    (service_type # "" /\ HasTipMarker(body)) => service_type = "GrabTip"

\* a tip marker beside a primary food marker and a secondary transport marker
C1_Witness ==
    /\ service_type = "GrabTip"
    /\ HasTipMarker(body)
    /\ HasFoodPrimary(body)
    /\ HasTransportSecondary(body)

\* the tiers in their fixed order
Tiers(b) ==
    <<[hit |-> HasTipMarker(b), label |-> "GrabTip"],
      [hit |-> HasFoodPrimary(b), label |-> "GrabFood"],
      [hit |-> HasTransportPrimary(b), label |-> "GrabTransport"],
      [hit |-> HasFoodSecondary(b), label |-> "GrabFood"],
      [hit |-> HasTransportSecondary(b), label |-> "GrabTransport"]>>

FirstTier(b) == First({i \in 1..5 : Tiers(b)[i].hit})

\* C2: detect_service_type is total, returns one of the four labels, the
\* label of the first matching tier in the order tip, primary food, primary
\* transport, secondary food, secondary transport, and Unknown exactly when
\* no tier matches.
C2_FirstMatchingTier ==
    /\ service_type = "" => ENABLED DetectServiceType
    /\ service_type # "" =>
         /\ service_type \in {"GrabFood", "GrabTransport", "GrabTip", "Unknown"}
         /\ FirstTier(body) # 0 => service_type = Tiers(body)[FirstTier(body)].label
         /\ service_type = "Unknown" <=> FirstTier(body) = 0

\* both secondary markers and no primary one: the food tier decides
C2_Witness ==
    /\ service_type = "GrabFood"
    /\ ~HasFoodPrimary(body)
    /\ HasFoodSecondary(body)
    /\ HasTransportSecondary(body)

\* C8: get_email_text never raises on a decoding failure; a single-part
\* message gets the decode-or-skip rule of the multi-part loop, so that an
\* undecodable single part yields the empty text.
C8_DecodeOrSkip ==
    text_out.exc # Pending =>
        /\ text_out.exc = NoExc
        /\ text_out.val = JoinNL(MultipartTexts(msg.parts))

\* C9: in every row produced the currency is "THB" exactly when a total was
\* found and empty otherwise, and total_amount is non-empty exactly when the
\* currency is, whatever the service type.
C9_CurrencyIffTotal ==
    row.exc = NoExc =>
        /\ row.val.currency = <<"THB">> <=> total # None
        /\ row.val.currency = <<>> <=> total = None
        /\ row.val.total_amount # <<>> <=> row.val.currency # <<>>

\* a tip receipt with a total
C9_Witness ==
    /\ row.exc = NoExc
    /\ service_type = "GrabTip"
    /\ total # None
    /\ row.val.currency = <<"THB">>
    /\ row.val.total_amount # <<>>

\* C10: in every row produced the metadata column is empty exactly when the
\* extracted mapping is empty and a JSON object otherwise, never "{}"; an
\* Unknown message has an empty mapping and an empty column.
C10_MetadataColumn ==
    row.exc = NoExc =>
        LET col == row.val.metadata
        IN  /\ col = <<>> <=> DOMAIN metadata = {}
            /\ col # <<>> => /\ Head(col) = "{"
                             /\ col[Len(col)] = "}"
                             /\ col # <<"{", "}">>
            /\ service_type = "Unknown" => DOMAIN metadata = {} /\ col = <<>>

\* a food receipt whose mapping holds a field
C10_Witness ==
    /\ row.exc = NoExc
    /\ service_type = "GrabFood"
    /\ DOMAIN metadata # {}
    /\ Len(row.val.metadata) > 2

\* C11: the mapping extract_transport_metadata returns holds distance_km if
\* and only if it holds duration_min.
C11_DistanceIffDuration ==
    (extracted.fn = "transport" /\ extracted.exc = NoExc) =>
        ("distance_km" \in DOMAIN extracted.val <=> "duration_min" \in DOMAIN extracted.val)

\* a ride receipt with a distance line: both fields are there
C11_Witness ==
    /\ extracted.fn = "transport"
    /\ extracted.exc = NoExc
    /\ {"distance_km", "duration_min"} \subseteq DOMAIN extracted.val

\* the numeric fields of the two extractors
NumericFields == {"subtotal", "delivery_fee", "platform_fee", "fare", "toll", "distance_km"}

\* C12: in the food and transport extractors a captured text that does not
\* convert to a number leaves its field out and raises nothing; a numeric
\* field that is present holds a number.
C12_NumericFieldsHoldNumbers ==
    extracted.exc # Pending =>
        /\ extracted.exc = NoExc
        /\ \A k \in NumericFields \cap DOMAIN extracted.val : extracted.val[k].k = "float"

----------------------------------------------------------------------------
(* Claims about the export.                                                *)

\* the rows the current run wrote, and the UID a row holds
BatchRows == SubSeq(csv, Len(csv) - processed_count + 1, Len(csv))

RowUid(r) == int(r.uid)

\* the UIDs of all rows of the file (the first line is the header)
CsvUids == {RowUid(csv[i]) : i \in 2..Len(csv)}

\* the batch ended by itself: no exception, at least one message found
BatchCompleted == pc = "logout" /\ exc = NoExc /\ uids # <<>>

\* C3: after a batch that completes without an exception and found at
\* least one message, the state file holds the maximum of the cursor loaded
\* at the start of the run and every UID the search returned; the persisted
\* cursor never decreases.
C3_CursorIsMaxObserved ==
    /\ [](BatchCompleted => state_file = SetMax({last_uid} \cup Range(uids)))
    /\ [][state_file' >= state_file]_vars

\* a second run, started from a cursor above 0, saved a larger cursor
C3_Witness ==
    /\ BatchCompleted
    /\ last_uid > 0
    /\ state_file > last_uid
    /\ state_file = SetMax(Range(uids))

\* C4: every UID fetched and turned into a record is strictly greater than
\* the cursor loaded at the start of the run.
C4_OnlyNewerProcessed ==
    pc \in {"loop", "logout"} =>
        \A k \in 1..Len(BatchRows) : RowUid(BatchRows[k]) > last_uid

\* C5: the persisted cursor is the UID of a message for which a record was
\* written, never that of a message whose fetch failed or whose body was
\* missing.
C5_CursorIsProcessed ==
    state_file # 0 => state_file \in CsvUids

\* C6: within one batch the records are written in ascending order of UID,
\* whatever order the search returned the UIDs in.
C6_AscendingWithinBatch ==
    pc \in {"loop", "logout"} =>
        \A i, j \in 1..Len(BatchRows) :
            i < j => RowUid(BatchRows[i]) < RowUid(BatchRows[j])

\* the server listed a larger UID before a smaller one and both were written
C6_Witness ==
    /\ pc = "logout"
    /\ Len(BatchRows) >= 2
    /\ \E i, j \in 1..Len(data) : i < j /\ data[i] > data[j]

\* C7: a parse or decode failure on one message does not abort the batch:
\* unless the fetch or the write fails, every UID of the batch is visited
\* and the cursor is persisted.
C7_ParseFailureIsolated ==
    (pc = "logout" /\ uids # <<>> /\ exc \notin {"imaplib.abort", "OSError", "RuntimeError"}) =>
        /\ idx > Len(uids)
        /\ state_file = max_uid

\* C13: over any sequence of runs, aborted ones included, no UID is written
\* to the CSV more than once.
C13_NoUidWrittenTwice ==
    \A i, j \in 2..Len(csv) : i # j => RowUid(csv[i]) # RowUid(csv[j])

====
